---- MODULE Spec2Model ----
(***************************************************************************)
(* Model of example.py of streamlit-monaco-copilot: a Streamlit page that  *)
(* renders the Monaco editor component, reads back its value and, when the *)
(* value carries a uuid not seen before, stores a suggestion and the uuid  *)
(* in st.session_state, sleeps and calls st.rerun().                       *)
(*                                                                         *)
(* A Python str is a sequence of code points.  A Python value is tagged:   *)
(* <<"NoneType">>, <<"str", s>> or <<"dict", f>> with f a function from    *)
(* key names to Python values.                                             *)
(***************************************************************************)
EXTENDS Integers, Sequences, FiniteSets, TLC

VARIABLES
    pc,             \* position of the script in the current pass
    session_state,  \* st.session_state: function from key names to values
    value,          \* the module-level name `value`
    new_uuid,       \* the module-level name `new_uuid`
    widget_args,    \* arguments of the st_monaco_copilot call of this pass
    calls,          \* number of st_monaco_copilot calls in this pass
    steps,          \* side effects performed by this pass, in order
    pass_start,     \* st.session_state as it was when this pass began
    uuid_read,      \* what st.session_state.get('uuid') returned in this pass
    prev,           \* result of the previous pass and whether it reran
    acted_on,       \* widget result on which the gate last opened
    last_seen,      \* uuid of the latest widget result that carried one
    stable,         \* the widget has stopped producing new observations
    stable_uuid,    \* the uuid it keeps reporting once stable
    reruns_since_stable, \* st.rerun() calls since the widget became stable
    settled         \* a pass completed without rerun since it became stable

vars == <<pc, session_state, value, new_uuid, widget_args, calls, steps,
          pass_start, uuid_read, prev, acted_on, last_seen, stable,
          stable_uuid, reruns_since_stable, settled>>

(***************************************************************************)
(* Bounds of the widget's observations.                                    *)
(***************************************************************************)
MaxUuid == 2
MaxCursor == 2

\* 'abc', 'xyz2', 'u3', 'u4'
UuidPool == << <<97, 98, 99>>, <<120, 121, 122, 50>>, <<117, 51>>, <<117, 52>> >>
\* 'def', 'a`b', 'xyz', 'q'
CursorPool == << <<100, 101, 102>>, <<97, 96, 98>>, <<120, 121, 122>>, <<113>> >>

Uuids == {UuidPool[i] : i \in 1..MaxUuid}
Cursors == {CursorPool[i] : i \in 1..MaxCursor}

(***************************************************************************)
(* Python values.                                                          *)
(***************************************************************************)
PyNone == <<"NoneType">>
PyStr(s) == <<"str", s>>
PyDict(f) == <<"dict", f>>
EmptyStr == PyStr(<<>>)
EmptyDict == [k \in {} |-> PyNone]

\* bool(v)
Truthy(v) ==
    CASE v[1] = "NoneType" -> FALSE
      [] v[1] = "str" -> Len(v[2]) > 0
      [] v[1] = "dict" -> DOMAIN v[2] # {}

\* d.get(k, default); d.get(k) is Get(d, k, PyNone)
Get(d, k, default) == IF k \in DOMAIN d THEN d[k] ELSE default

\* d[k] = v
Put(d, k, v) == [x \in DOMAIN d \cup {k} |-> IF x = k THEN v ELSE d[x]]

\* 'i have suggestion about this code: `'
Prefix == <<105, 32, 104, 97, 118, 101, 32, 115, 117, 103, 103, 101, 115,
            116, 105, 111, 110, 32, 97, 98, 111, 117, 116, 32, 116, 104, 105,
            115, 32, 99, 111, 100, 101, 58, 32, 96>>
\* '`'
Backtick == <<96>>

(***************************************************************************)
(* The widget: what st_monaco_copilot is called with and may return.       *)
(***************************************************************************)
WidgetArgsBlank(ss) ==
    [label |-> PyStr(<<102, 111, 111>>),
     language |-> PyStr(<<112, 121, 116, 104, 111, 110>>),
     initial_code |-> PyStr(<<112, 114, 105, 110, 116, 40, 34, 104, 101, 108,
                              108, 111, 32, 119, 111, 114, 108, 100, 34, 41>>),
     suggestion |-> EmptyStr,
     key |-> PyStr(<<102, 105, 120, 101, 100>>)]
WidgetArgsNoDefault(ss) ==
    [label |-> PyStr(<<102, 111, 111>>),
     language |-> PyStr(<<112, 121, 116, 104, 111, 110>>),
     initial_code |-> PyStr(<<112, 114, 105, 110, 116, 40, 34, 104, 101, 108,
                              108, 111, 32, 119, 111, 114, 108, 100, 34, 41>>),
     suggestion |-> Get(ss, "suggestion", PyNone),
     key |-> PyStr(<<102, 105, 120, 101, 100>>)]
\* "foo", language='python', initial_code='print("hello world")',
\* suggestion=st.session_state.get('suggestion', ''), key='fixed'
WidgetArgs(ss) ==
    [label |-> PyStr(<<102, 111, 111>>),
     language |-> PyStr(<<112, 121, 116, 104, 111, 110>>),
     initial_code |-> PyStr(<<112, 114, 105, 110, 116, 40, 34, 104, 101, 108,
                              108, 111, 32, 119, 111, 114, 108, 100, 34, 41>>),
     suggestion |-> Get(ss, "suggestion", EmptyStr),
     key |-> PyStr(<<102, 105, 120, 101, 100>>)]

FieldValues(k) ==
    IF k = "uuid" THEN {PyStr(s) : s \in Uuids \cup {<<>>}}
                  ELSE {PyStr(s) : s \in Cursors \cup {<<>>}}

Dicts ==
    UNION {{f \in [D -> FieldValues("uuid") \cup FieldValues("beforeCursor")] :
               \A k \in D : f[k] \in FieldValues(k)} :
           D \in SUBSET {"uuid", "beforeCursor"}}

\* None, {} or a record with any of the fields uuid and beforeCursor
Results == {PyNone} \cup {PyDict(f) : f \in Dicts}

\* the uuid a widget result carries, '' when it carries none
UuidOf(r) ==
    IF r[1] = "dict" /\ "uuid" \in DOMAIN r[2] THEN r[2]["uuid"] ELSE EmptyStr

(***************************************************************************)
(* The script's expressions.                                               *)
(***************************************************************************)
\* if value and value.get('uuid'): new_uuid = value['uuid'] else: new_uuid = ''
NewUuid(v) ==
    IF Truthy(v) /\ Truthy(Get(v[2], "uuid", PyNone))
    THEN v[2]["uuid"]
    ELSE EmptyStr

\* value and new_uuid and new_uuid != st.session_state.get('uuid')
GateNoDedup(v, nu, ss) == Truthy(v) /\ Truthy(nu)
GateWrongKey(v, nu, ss) ==
    Truthy(v) /\ Truthy(nu) /\ nu # Get(ss, "suggestion", PyNone)
GateCond(v, nu, ss) ==
    Truthy(v) /\ Truthy(nu) /\ nu # Get(ss, "uuid", PyNone)

\* 'i have suggestion about this code: `' + value.get('beforeCursor', '') + '`'
SuggestionNoClose(v) ==
    PyStr(Prefix \o Get(v[2], "beforeCursor", EmptyStr)[2])
Suggestion(v) ==
    PyStr(Prefix \o Get(v[2], "beforeCursor", EmptyStr)[2] \o Backtick)

NotRead == <<"not read">>
NoArgs == [label |-> PyNone]
NoPass == [value |-> PyNone, acted |-> FALSE]
Min(a, b) == IF a < b THEN a ELSE b

(***************************************************************************)
(* Initial state: a fresh session, the first pass about to start.          *)
(***************************************************************************)
Init ==
    /\ pc = "start"
    /\ session_state = EmptyDict
    /\ value = PyNone
    /\ new_uuid = EmptyStr
    /\ widget_args = NoArgs
    /\ calls = 0
    /\ steps = <<>>
    /\ pass_start = EmptyDict
    /\ uuid_read = NotRead
    /\ prev = NoPass
    /\ acted_on = PyNone
    /\ last_seen = PyNone
    /\ stable = FALSE
    /\ stable_uuid = EmptyStr
    /\ reruns_since_stable = 0
    /\ settled = FALSE

(***************************************************************************)
(* Lines 7-13: the widget is called and returns r.  With freeze the widget *)
(* reports no new observation from this pass on.                           *)
(***************************************************************************)
CallWidgetReturns ==
    /\ pc = "start"
    /\ \E r \in Results, freeze \in BOOLEAN :
        /\ stable => UuidOf(r) \in {stable_uuid, EmptyStr}
        /\ value' = r
        /\ last_seen' = IF UuidOf(r) # EmptyStr THEN UuidOf(r) ELSE last_seen
        /\ stable' = (stable \/ freeze)
        /\ stable_uuid' = IF ~stable /\ freeze THEN UuidOf(r) ELSE stable_uuid
    /\ widget_args' = WidgetArgs(session_state)
    /\ calls' = Min(calls + 1, 2)
    /\ pc' = "extract"
    /\ UNCHANGED <<session_state, new_uuid, steps, pass_start, uuid_read,
                   prev, acted_on, reruns_since_stable, settled>>

(***************************************************************************)
(* Lines 7-13: the widget call raises; nothing catches it, the pass ends.  *)
(***************************************************************************)
CallWidgetRetried ==
    /\ pc = "start"
    /\ ~stable
    /\ widget_args' = WidgetArgs(session_state)
    /\ calls' = Min(calls + 1, 2)
    /\ pc' = IF calls = 0 THEN "start" ELSE "failed"
    /\ UNCHANGED <<session_state, value, new_uuid, steps, pass_start,
                   uuid_read, prev, acted_on, last_seen, stable, stable_uuid,
                   reruns_since_stable, settled>>
CallWidgetFails ==
    /\ pc = "start"
    /\ ~stable
    /\ widget_args' = WidgetArgs(session_state)
    /\ calls' = Min(calls + 1, 2)
    /\ pc' = "failed"
    /\ UNCHANGED <<session_state, value, new_uuid, steps, pass_start,
                   uuid_read, prev, acted_on, last_seen, stable, stable_uuid,
                   reruns_since_stable, settled>>

(***************************************************************************)
(* Lines 16-22: value is displayed and new_uuid extracted.                 *)
(***************************************************************************)
Extract ==
    /\ pc = "extract"
    /\ new_uuid' = NewUuid(value)
    /\ pc' = "gate"
    /\ UNCHANGED <<session_state, value, widget_args, calls, steps,
                   pass_start, uuid_read, prev, acted_on, last_seen, stable,
                   stable_uuid, reruns_since_stable, settled>>

(***************************************************************************)
(* Line 24: the decision gate.  `and` short-circuits, so session_state is  *)
(* read only when value and new_uuid are truthy.                           *)
(***************************************************************************)
Gate ==
    /\ pc = "gate"
    /\ uuid_read' = IF Truthy(value) /\ Truthy(new_uuid)
                    THEN Get(session_state, "uuid", PyNone)
                    ELSE NotRead
    /\ IF GateCond(value, new_uuid, session_state)
       THEN /\ pc' = "set_suggestion"
            /\ acted_on' = value
            /\ UNCHANGED settled
       ELSE /\ pc' = "done"
            /\ settled' = (settled \/ stable)
            /\ UNCHANGED acted_on
    /\ UNCHANGED <<session_state, value, new_uuid, widget_args, calls, steps,
                   pass_start, prev, last_seen, stable, stable_uuid,
                   reruns_since_stable>>

(***************************************************************************)
(* Line 25: st.session_state['suggestion'] = ...                           *)
(***************************************************************************)
WriteSuggestionTypo ==
    /\ pc = "set_suggestion"
    /\ session_state' = Put(session_state, "suggest", Suggestion(value))
    /\ steps' = Append(steps, "set_suggestion")
    /\ pc' = "set_uuid"
    /\ UNCHANGED <<value, new_uuid, widget_args, calls, pass_start, uuid_read,
                   prev, acted_on, last_seen, stable, stable_uuid,
                   reruns_since_stable, settled>>
WriteSuggestion ==
    /\ pc = "set_suggestion"
    /\ session_state' = Put(session_state, "suggestion", Suggestion(value))
    /\ steps' = Append(steps, "set_suggestion")
    /\ pc' = "set_uuid"
    /\ UNCHANGED <<value, new_uuid, widget_args, calls, pass_start, uuid_read,
                   prev, acted_on, last_seen, stable, stable_uuid,
                   reruns_since_stable, settled>>

(***************************************************************************)
(* Line 26: st.session_state['uuid'] = new_uuid                            *)
(***************************************************************************)
WriteUuidOnce ==
    /\ pc = "set_uuid"
    /\ session_state' = IF "uuid" \in DOMAIN session_state
                        THEN session_state
                        ELSE Put(session_state, "uuid", new_uuid)
    /\ steps' = Append(steps, "set_uuid")
    /\ pc' = "sleep"
    /\ UNCHANGED <<value, new_uuid, widget_args, calls, pass_start, uuid_read,
                   prev, acted_on, last_seen, stable, stable_uuid,
                   reruns_since_stable, settled>>
WriteUuid ==
    /\ pc = "set_uuid"
    /\ session_state' = Put(session_state, "uuid", new_uuid)
    /\ steps' = Append(steps, "set_uuid")
    /\ pc' = "sleep"
    /\ UNCHANGED <<value, new_uuid, widget_args, calls, pass_start, uuid_read,
                   prev, acted_on, last_seen, stable, stable_uuid,
                   reruns_since_stable, settled>>

(***************************************************************************)
(* Lines 27-28: time.sleep(1)                                              *)
(***************************************************************************)
SleepSkipped ==
    /\ pc = "sleep"
    /\ pc' = "rerun"
    /\ UNCHANGED <<session_state, value, new_uuid, widget_args, calls, steps,
                   pass_start, uuid_read, prev, acted_on, last_seen, stable,
                   stable_uuid, reruns_since_stable, settled>>
Sleep ==
    /\ pc = "sleep"
    /\ steps' = Append(steps, "sleep")
    /\ pc' = "rerun"
    /\ UNCHANGED <<session_state, value, new_uuid, widget_args, calls,
                   pass_start, uuid_read, prev, acted_on, last_seen, stable,
                   stable_uuid, reruns_since_stable, settled>>

(***************************************************************************)
(* Line 29: st.rerun() aborts the pass and asks the host to restart it.    *)
(***************************************************************************)
Rerun ==
    /\ pc = "rerun"
    /\ steps' = Append(steps, "rerun")
    /\ reruns_since_stable' =
           IF stable THEN Min(reruns_since_stable + 1, 3) ELSE 0
    /\ pc' = "rerunning"
    /\ UNCHANGED <<session_state, value, new_uuid, widget_args, calls,
                   pass_start, uuid_read, prev, acted_on, last_seen, stable,
                   stable_uuid, settled>>

(***************************************************************************)
(* The host starts the next pass: the script runs again from line 1 with   *)
(* fresh module-level names and the session state kept.                    *)
(***************************************************************************)
BeginPass(acted) ==
    /\ pc' = "start"
    /\ prev' = [value |-> value, acted |-> acted]
    /\ value' = PyNone
    /\ new_uuid' = EmptyStr
    /\ widget_args' = NoArgs
    /\ calls' = 0
    /\ steps' = <<>>
    /\ pass_start' = session_state
    /\ uuid_read' = NotRead
    /\ UNCHANGED <<session_state, acted_on, last_seen, stable, stable_uuid,
                   reruns_since_stable, settled>>

\* the restart requested by st.rerun()
HostRerun ==
    /\ pc = "rerunning"
    /\ BeginPass(TRUE)

\* a later run of the script, after the previous one ended by itself
HostNewPass ==
    /\ pc \in {"done", "failed"}
    /\ BeginPass(FALSE)

Next ==
    \/ CallWidgetReturns
    \/ CallWidgetFails
    \/ Extract
    \/ Gate
    \/ WriteSuggestion
    \/ WriteUuid
    \/ Sleep
    \/ Rerun
    \/ HostRerun
    \/ HostNewPass

Spec == Init /\ [][Next]_vars

\* The script runs each pass to its end and the host honours st.rerun();
\* nothing obliges the host to start a pass after one that ended by itself.
FairSpec ==
    /\ Spec
    /\ WF_vars(CallWidgetReturns \/ CallWidgetFails)
    /\ WF_vars(Extract)
    /\ WF_vars(Gate)
    /\ WF_vars(WriteSuggestion)
    /\ WF_vars(WriteUuid)
    /\ WF_vars(Sleep)
    /\ WF_vars(Rerun)
    /\ WF_vars(HostRerun)

(***************************************************************************)
(* Vocabulary of the properties.                                           *)
(***************************************************************************)
\* the widget has returned in this pass
Called == pc \notin {"start", "failed"}
\* the pass is over: it completed, or it called st.rerun()
PassEnded == pc \in {"done", "rerunning"}
\* between two passes
AtBoundary == pc \in {"start", "done", "failed", "rerunning"}
\* the text before the cursor in result v, '' when the field is missing
BeforeCursorOf(v) ==
    IF "beforeCursor" \in DOMAIN v[2] THEN v[2]["beforeCursor"][2] ELSE <<>>
\* the suggestion the page is to build from result v
ExpectedSuggestion(v) == PyStr(Prefix \o BeforeCursorOf(v) \o <<96>>)
IsPrefix(s, t) == Len(s) <= Len(t) /\ s = SubSeq(t, 1, Len(s))
StepOrder == <<"set_suggestion", "set_uuid", "sleep", "rerun">>
\* the pass so far has changed nothing, not slept and not asked for a rerun
Untouched ==
    /\ session_state = pass_start
    /\ steps = <<>>
    /\ pc \notin {"set_suggestion", "set_uuid", "sleep", "rerun", "rerunning"}

\* C1: when the widget result is absent or empty, has no uuid or an empty
\* uuid, or has the uuid stored at the start of the pass, the pass leaves
\* session state as it was, does not sleep and does not rerun.
C1_NoAction ==
    (/\ Called
     /\ \/ value = PyNone
        \/ value = PyDict(EmptyDict)
        \/ UuidOf(value) = EmptyStr
        \/ UuidOf(value) = Get(pass_start, "uuid", PyNone))
    => Untouched

C1_Witness ==
    /\ pc = "done"
    /\ UuidOf(value) # EmptyStr
    /\ UuidOf(value) = Get(pass_start, "uuid", PyNone)

\* C2: when the widget result has a non-empty uuid different from the stored
\* one (or none is stored), the pass ends with uuid = R.uuid, suggestion =
\* prefix + R.beforeCursor ('' when missing) + backtick, and a rerun.
C2_Acts ==
    (/\ PassEnded
     /\ UuidOf(value) # EmptyStr
     /\ UuidOf(value) # Get(pass_start, "uuid", PyNone))
    => /\ pc = "rerunning"
       /\ DOMAIN session_state = {"suggestion", "uuid"}
       /\ session_state["uuid"] = UuidOf(value)
       /\ session_state["suggestion"] = ExpectedSuggestion(value)
       /\ steps[Len(steps)] = "rerun"

C2_Witness ==
    /\ pc = "rerunning"
    /\ "uuid" \in DOMAIN pass_start
    /\ "beforeCursor" \notin DOMAIN value[2]

\* C3: a pass that receives the very result on which the previous pass acted
\* changes nothing in session state and does not rerun.
C3_Idempotent ==
    (Called /\ prev.acted /\ value = prev.value) => Untouched

C3_Witness ==
    /\ pc = "done"
    /\ prev.acted
    /\ value = prev.value

\* C4: once the widget keeps returning the same uuid (or nothing), at most
\* one more rerun happens, a pass completes without rerun, and from then on
\* session state never changes.
C4_NoRerunLoop ==
    /\ [](reruns_since_stable <= 1)
    /\ (stable ~> pc = "done")
    /\ [][settled => session_state' = session_state]_vars

C4_Witness ==
    /\ stable
    /\ settled
    /\ reruns_since_stable = 1
    /\ pc = "done"

\* C5: each pass calls the widget exactly once, always with the same label,
\* language, initial code and key 'fixed', and with the suggestion stored in
\* session state: '' before any pass has acted, else the one built from the
\* result the latest acting pass acted on.
C5_WidgetCall ==
    /\ calls <= 1
    /\ (PassEnded \/ pc = "failed") => calls = 1
    /\ pc \in {"extract", "gate", "failed"} =>
        /\ widget_args.label = PyStr(<<102, 111, 111>>)
        /\ widget_args.language = PyStr(<<112, 121, 116, 104, 111, 110>>)
        /\ widget_args.initial_code =
               PyStr(<<112, 114, 105, 110, 116, 40, 34, 104, 101, 108, 108,
                       111, 32, 119, 111, 114, 108, 100, 34, 41>>)
        /\ widget_args.key = PyStr(<<102, 105, 120, 101, 100>>)
        /\ widget_args.suggestion =
               IF acted_on = PyNone THEN EmptyStr
               ELSE ExpectedSuggestion(acted_on)
        /\ prev.acted => widget_args.suggestion = ExpectedSuggestion(prev.value)

C5_Witness ==
    /\ pc = "extract"
    /\ prev.acted
    /\ widget_args.suggestion = ExpectedSuggestion(prev.value)
    /\ Len(BeforeCursorOf(prev.value)) > 0

\* C6: a failing widget call is neither caught nor retried: the pass ends in
\* the failure after one call, with session state as at the start of the
\* pass, no sleep and no rerun.
C6_FailurePropagates ==
    /\ calls <= 1
    /\ pc = "failed" =>
        /\ calls = 1
        /\ session_state = pass_start
        /\ steps = <<>>

C6_Witness ==
    /\ pc = "failed"
    /\ DOMAIN session_state = {"suggestion", "uuid"}

\* C7: an acting pass writes suggestion, then uuid, then sleeps, then
\* reruns; the rerun is its last step and never happens without the sleep,
\* and both writes are in session state when the restarted pass begins.
C7_StepOrder ==
    /\ IsPrefix(steps, StepOrder)
    /\ pc = "rerun" => steps = SubSeq(StepOrder, 1, 3)
    /\ pc = "rerunning" <=> steps = StepOrder
    /\ (pc = "start" /\ prev.acted) =>
        /\ Get(session_state, "suggestion", PyNone) =
               ExpectedSuggestion(prev.value)
        /\ Get(session_state, "uuid", PyNone) = UuidOf(prev.value)

C7_Witness ==
    /\ pc = "start"
    /\ prev.acted
    /\ Get(session_state, "uuid", PyNone) = UuidOf(prev.value)

\* C8: at the end of every pass the stored uuid is the uuid of the latest
\* widget result that carried a non-empty one, and is absent when there has
\* been none.
C8_LastSeenUuid ==
    (PassEnded \/ pc = "failed") =>
        Get(session_state, "uuid", PyNone) = last_seen

C8_Witness ==
    /\ pc = "rerunning"
    /\ "uuid" \in DOMAIN pass_start
    /\ session_state["uuid"] # pass_start["uuid"]
    /\ session_state["uuid"] = last_seen

\* C9 as stated: an absent suggestion key and an absent uuid key are both
\* read as the empty string.
C9_AbsentReadAsEmpty ==
    /\ (calls > 0 /\ "suggestion" \notin DOMAIN pass_start) =>
           widget_args.suggestion = EmptyStr
    /\ (uuid_read # NotRead /\ "uuid" \notin DOMAIN pass_start) =>
           uuid_read = EmptyStr

\* C9: an absent suggestion key is read as the empty string; an absent uuid
\* key is read as None, which like the empty string differs from every
\* non-empty candidate, so the gate opens.
C9_AbsentReads ==
    /\ (calls > 0 /\ "suggestion" \notin DOMAIN pass_start) =>
           widget_args.suggestion = EmptyStr
    /\ (uuid_read # NotRead /\ "uuid" \notin DOMAIN pass_start) =>
           /\ uuid_read = PyNone
           /\ pc # "done"

C9_Witness ==
    /\ uuid_read = PyNone
    /\ widget_args.suggestion = EmptyStr
    /\ pc = "set_suggestion"

\* C10: between passes suggestion and uuid are both absent or both present;
\* when present the uuid is a non-empty string and both come from the one
\* result the latest acting pass acted on; no other key is ever written.
C10_KeysTogether ==
    /\ DOMAIN session_state \subseteq {"suggestion", "uuid"}
    /\ AtBoundary =>
        \/ session_state = EmptyDict /\ acted_on = PyNone
        \/ /\ DOMAIN session_state = {"suggestion", "uuid"}
           /\ session_state["uuid"][1] = "str"
           /\ Len(session_state["uuid"][2]) > 0
           /\ acted_on # PyNone
           /\ session_state["uuid"] = UuidOf(acted_on)
           /\ session_state["suggestion"] = ExpectedSuggestion(acted_on)

C10_Witness ==
    /\ pc = "done"
    /\ DOMAIN session_state = {"suggestion", "uuid"}
    /\ UuidOf(value) = session_state["uuid"]
    /\ session_state["suggestion"] # ExpectedSuggestion(value)
====
